---- MODULE Spec2Model ----
(***************************************************************************)
(* Retrieval subsystem of the mental-health RAG chatbot:                   *)
(* src/src/services/retrieval_service.py with the collaborators it calls   *)
(* (src/src/core/database.py, src/src/services/embedding_service.py),      *)
(* and the /chat handler that calls it (src/src/api/routes.py).            *)
(*                                                                         *)
(* Text is modelled at token level: a query is a sequence of tokens, a     *)
(* token being one word (a maximal \w+ run, possibly written with capital  *)
(* letters) or one whitespace character.  Scores are hundredths, so 0.15   *)
(* is 15 and 1.0 is 100.                                                   *)
(***************************************************************************)
EXTENDS Integers, Sequences, FiniteSets, TLC

(***************************************************************************)
(* Settings (src/src/core/config.py).  RETRIEVAL_TOP_K and                 *)
(* RETRIEVAL_CANDIDATE_MULTIPLIER are Field(default=3, ge=1, le=10); the   *)
(* model takes them from that range, small enough to enumerate.            *)
(***************************************************************************)
RETRIEVAL_TOP_K == 2
RETRIEVAL_CANDIDATE_MULTIPLIER == 2
TOPIC_BOOST_FACTOR == 15
\* the literal 1.0 of min(1.0, ...) in _apply_topic_boosting
SCORE_CLAMP == 100
\* the default 0.0 of row.get("similarity", 0.0)
DEFAULT_SCORE == 0
\* stop_after_attempt(3) on LLMService.generate
LLM_MAX_ATTEMPTS == 3

(***************************************************************************)
(* Bounds of the model                                                     *)
(***************************************************************************)
\* number of retrieve calls started in one behaviour
MaxCalls == 3
\* longest document sequence given to _apply_topic_boosting on its own
MaxDocs == 3
\* most words in a query given to infer_topic_from_query on its own
MaxWords == 4

None == "None"

Min(a, b) == IF a <= b THEN a ELSE b

(***************************************************************************)
(* str.lower() and str.strip() on token sequences                          *)
(***************************************************************************)
Space == " "

\* words written with capital letters, and their lower-case spelling
Capitalized == {"Stress", "STRESS", "Hello", "Panic"}

LowerWord(w) ==
    CASE w = "Stress" -> "stress"
      [] w = "STRESS" -> "stress"
      [] w = "Hello" -> "hello"
      [] w = "Panic" -> "panic"
      [] OTHER -> w

Lower(s) == [i \in 1..Len(s) |-> LowerWord(s[i])]

RECURSIVE LStrip(_)
LStrip(s) ==
    IF s # <<>> /\ Head(s) = Space THEN LStrip(Tail(s)) ELSE s

RECURSIVE RStrip(_)
RStrip(s) ==
    IF s # <<>> /\ s[Len(s)] = Space THEN RStrip(SubSeq(s, 1, Len(s) - 1)) ELSE s

Strip(s) == RStrip(LStrip(s))

\* cache_key = query.lower().strip(), without the lower-casing
CacheKeyNoLower(query) == Strip(query)

\* cache_key = query.lower(), without the strip
CacheKeyNoStrip(query) == Lower(query)

\* cache_key = query.lower().strip()
CacheKey(query) == Strip(Lower(query))

(***************************************************************************)
(* infer_topic_from_query                                                  *)
(***************************************************************************)
Topics == <<"depression", "anxiety", "stress", "breathing", "cbt">>

\* \b(w1|w2|...)\b : some word of the text is one of the alternatives
HasWord(s, words) == \E i \in 1..Len(s) : s[i] \in words

\* \bw1 w2\b : w1, one space, w2
HasPhrase(s, w1, w2s) ==
    \E i \in 1..(Len(s) - 2) :
        s[i] = w1 /\ s[i + 1] = Space /\ s[i + 2] \in w2s

\* \bw1 w2\b.*\b(w3|...)\b : the phrase, then anywhere later one of the words
HasPhraseThen(s, w1, w2, words) ==
    \E i \in 1..(Len(s) - 2) :
        /\ s[i] = w1 /\ s[i + 1] = Space /\ s[i + 2] = w2
        /\ \E j \in (i + 3)..Len(s) : s[j] \in words

\* topic_patterns: for each topic, the truth value of each of its patterns
PatternMatches(s, topic) ==
    CASE topic = "depression" ->
           << HasWord(s, {"depress", "depressed", "depression", "depressive",
                          "sad", "sadness", "hopeless", "hopelessness",
                          "suicid", "suicidal", "suicide"}),
              HasPhrase(s, "feeling", {"down"}),
              HasPhrase(s, "no", {"motivation"}) >>
      [] topic = "anxiety" ->
           << HasWord(s, {"anxious", "anxiety", "anxieties", "panic",
                          "worried", "worry", "worrying"}),
              HasPhrase(s, "panic", {"attack"}),
              HasPhrase(s, "feeling", {"nervous"}) >>
      [] topic = "stress" ->
           << HasWord(s, {"stress", "stressed", "stressful", "overwhelm",
                          "overwhelmed", "overwhelming", "pressure", "tense",
                          "tension"}),
              HasPhrase(s, "stressed", {"out"}),
              HasPhraseThen(s, "too", "much", {"work", "responsibilities"}) >>
      [] topic = "breathing" ->
           << HasWord(s, {"breath", "breathe", "breathing", "respiratory"}),
              HasPhrase(s, "breathing", {"exercise", "technique"}),
              HasPhrase(s, "calm", {"breath"}) \/ HasPhrase(s, "calming", {"breath"}) >>
      [] topic = "cbt" ->
           << HasWord(s, {"cbt"}) \/ HasPhrase(s, "cognitive", {"behavioral"})
                \/ HasPhrase(s, "thought", {"pattern"})
                \/ HasPhrase(s, "negative", {"thought"}),
              HasPhrase(s, "changing", {"thoughts"}) >>

\* the keyword pattern counted once for each word of the text it matches
\* (len(re.findall(...)) in place of re.search)
TopicScoreCountingWords(s, topic) ==
    LET m == PatternMatches(s, topic)
    IN  Cardinality({k \in 1..Len(s) : PatternMatches(<<s[k]>>, topic)[1]})
        + Cardinality({i \in 2..Len(m) : m[i]})

\* score += 1 for each pattern that re.search finds
TopicScore(s, topic) ==
    LET m == PatternMatches(s, topic)
    IN  Cardinality({i \in 1..Len(m) : m[i]})

\* topic_scores: the topics with a score above zero, and their score
TopicScores(query) ==
    LET s == Lower(query)
    IN  [t \in {Topics[i] : i \in {j \in 1..Len(Topics) : TopicScore(s, Topics[j]) > 0}}
            |-> TopicScore(s, t)]

\* a maximum search that keeps the last maximum in insertion order
InferTopicLastMax(query) ==
    LET s == Lower(query)
        scored == {i \in 1..Len(Topics) : TopicScore(s, Topics[i]) > 0}
        best == CHOOSE i \in scored :
                    \A j \in scored :
                        \/ TopicScore(s, Topics[j]) < TopicScore(s, Topics[i])
                        \/ (TopicScore(s, Topics[j]) = TopicScore(s, Topics[i]) /\ i >= j)
    IN  IF scored = {} THEN None ELSE Topics[best]

\* max(topic_scores.items(), key=...) keeps the first maximum in insertion order
InferTopic(query) ==
    LET s == Lower(query)
        scored == {i \in 1..Len(Topics) : TopicScore(s, Topics[i]) > 0}
        best == CHOOSE i \in scored :
                    \A j \in scored :
                        \/ TopicScore(s, Topics[j]) < TopicScore(s, Topics[i])
                        \/ (TopicScore(s, Topics[j]) = TopicScore(s, Topics[i]) /\ i <= j)
    IN  IF scored = {} THEN None ELSE Topics[best]

(***************************************************************************)
(* Document, and the rows of the similarity store                          *)
(***************************************************************************)
\* dict.get(key, default)
Get(d, key, default) == IF key \in DOMAIN d THEN d[key] ELSE default

\* metadata={} : the metadata mapping without any key
EmptyMetadata == [k \in {} |-> None]

Metadata(topic) == [topic |-> topic]

\* the metadata of a row whose metadata column is null: row.get("metadata",
\* {}) finds the key and gives None, which has no attribute get
NullMetadata == [json_null |-> TRUE]

\* @dataclass class Document
Document(content, metadata, score) ==
    [content |-> content, metadata |-> metadata, score |-> score]

\* Database.search_similar: one result dict per row of response.data
SearchResults(data) ==
    [i \in 1..Len(data) |->
        [content |-> Get(data[i], "content", None),
         metadata |-> Get(data[i], "metadata", EmptyMetadata),
         score |-> Get(data[i], "similarity", DEFAULT_SCORE)]]

\* retrieve: "Convert to Document objects"
ToDocuments(results) ==
    [i \in 1..Len(results) |->
        Document(results[i]["content"],
                 Get(results[i], "metadata", EmptyMetadata),
                 Get(results[i], "score", DEFAULT_SCORE))]

\* truth value of a str or None
Truthy(x) == x # None /\ x # ""

(***************************************************************************)
(* _apply_topic_boosting                                                   *)
(***************************************************************************)
\* new_score replaced by the boost instead of raised by it
NewScoreNoAdd(doc, query_topic) ==
    LET doc_topic == Get(doc.metadata, "topic", None)
    IN  IF Truthy(doc_topic) /\ doc_topic = query_topic
        THEN Min(SCORE_CLAMP, TOPIC_BOOST_FACTOR)
        ELSE doc.score

\* new_score without the comparison of the topics
NewScoreBoostAll(doc, query_topic) ==
    Min(SCORE_CLAMP, doc.score + TOPIC_BOOST_FACTOR)

\* new_score without min(1.0, ...)
NewScoreNoClamp(doc, query_topic) ==
    LET doc_topic == Get(doc.metadata, "topic", None)
    IN  IF Truthy(doc_topic) /\ doc_topic = query_topic
        THEN doc.score + TOPIC_BOOST_FACTOR
        ELSE doc.score

\* new_score of one document
NewScore(doc, query_topic) ==
    LET doc_topic == Get(doc.metadata, "topic", None)
    IN  IF Truthy(doc_topic) /\ doc_topic = query_topic
        THEN Min(SCORE_CLAMP, doc.score + TOPIC_BOOST_FACTOR)
        ELSE doc.score

\* a descending sort that puts a document before those of equal score
RECURSIVE InsertByScoreBeforeEqual(_, _)
InsertByScoreBeforeEqual(sorted, d) ==
    IF sorted = <<>> THEN <<d>>
    ELSE IF Head(sorted).score > d.score
         THEN <<Head(sorted)>> \o InsertByScoreBeforeEqual(Tail(sorted), d)
         ELSE <<d>> \o sorted

\* a descending sort that keeps one document per score
RECURSIVE InsertByScoreUnique(_, _)
InsertByScoreUnique(sorted, d) ==
    IF sorted = <<>> THEN <<d>>
    ELSE IF Head(sorted).score > d.score
         THEN <<Head(sorted)>> \o InsertByScoreUnique(Tail(sorted), d)
         ELSE IF Head(sorted).score = d.score THEN sorted
         ELSE <<d>> \o sorted

\* list.sort(key=score, reverse=True): descending, equal scores keep their order
RECURSIVE InsertByScore(_, _)
InsertByScore(sorted, d) ==
    IF sorted = <<>> THEN <<d>>
    ELSE IF Head(sorted).score >= d.score
         THEN <<Head(sorted)>> \o InsertByScore(Tail(sorted), d)
         ELSE <<d>> \o sorted

RECURSIVE SortByScore(_)
SortByScore(docs) ==
    IF docs = <<>> THEN <<>>
    ELSE InsertByScore(SortByScore(SubSeq(docs, 1, Len(docs) - 1)), docs[Len(docs)])

\* without boosted_docs.sort(...)
ApplyTopicBoostingNoSort(documents, query_topic) ==
    IF ~Truthy(query_topic) \/ documents = <<>>
    THEN documents
    ELSE [i \in 1..Len(documents) |->
            Document(documents[i].content, documents[i].metadata,
                     NewScore(documents[i], query_topic))]

\* without "if not query_topic or not documents: return documents"
ApplyTopicBoostingAlways(documents, query_topic) ==
    SortByScore([i \in 1..Len(documents) |->
                    Document(documents[i].content, documents[i].metadata,
                             NewScore(documents[i], query_topic))])

ApplyTopicBoosting(documents, query_topic) ==
    IF ~Truthy(query_topic) \/ documents = <<>>
    THEN documents
    ELSE SortByScore([i \in 1..Len(documents) |->
                        Document(documents[i].content, documents[i].metadata,
                                 NewScore(documents[i], query_topic))])

(***************************************************************************)
(* The body of retrieve after the similarity search                        *)
(***************************************************************************)
\* candidate_count = RETRIEVAL_TOP_K * RETRIEVAL_CANDIDATE_MULTIPLIER
CandidateCount == RETRIEVAL_TOP_K * RETRIEVAL_CANDIDATE_MULTIPLIER

\* the slice taken with the candidate count instead of the top-k
FirstCandidateCount(documents) ==
    SubSeq(documents, 1, Min(Len(documents), CandidateCount))

\* documents[: RETRIEVAL_TOP_K]
FirstTopK(documents) ==
    SubSeq(documents, 1, Min(Len(documents), RETRIEVAL_TOP_K))

\* doc.metadata.get("topic") of line 110 raises AttributeError: the boost
\* runs and the metadata of some document is None
RerankRaises(results, query_topic) ==
    /\ Truthy(query_topic)
    /\ \E i \in 1..Len(results) : ToDocuments(results)[i].metadata = NullMetadata

\* documents after "if query_topic: documents = self._apply_topic_boosting(...)"
Reranked(results, query_topic) ==
    IF Truthy(query_topic)
    THEN ApplyTopicBoosting(ToDocuments(results), query_topic)
    ELSE ToDocuments(results)

FinalDocuments(results, query_topic) == FirstTopK(Reranked(results, query_topic))

(***************************************************************************)
(* The cache dict                                                          *)
(***************************************************************************)
\* a lookup by truth value (self._cache.get(key)): an empty list is no hit
CacheHitTruthy(c, key) == key \in DOMAIN c /\ c[key] # <<>>

\* cache_key in self._cache
CacheHit(c, key) == key \in DOMAIN c

\* a cache of one entry: the store of a key evicts every other key
CachePutEvicting(c, key, value) == [k \in {key} |-> value]

\* self._cache.setdefault(key, value): an entry that exists is kept
CachePutIfAbsent(c, key, value) ==
    [k \in DOMAIN c \cup {key} |-> IF k \in DOMAIN c THEN c[k] ELSE value]

\* self._cache[cache_key] = final_documents
CachePut(c, key, value) ==
    [k \in DOMAIN c \cup {key} |-> IF k = key THEN value ELSE c[k]]

\* an except clause that lets the exception through as it is
ReraiseAsIs(e) == e

\* except Exception as e: raise RetrievalException(...)
Reraise(e) == "RetrievalException"

(***************************************************************************)
(* Inputs                                                                  *)
(***************************************************************************)
\* the requests that can have a retrieve call in flight at the same time
Callers == {"c1", "c2"}

\* "Stress", "  stress  " without one of its blanks on each side, "hello"
Queries == { <<"Stress">>, <<Space, "stress", Space>>, <<"hello">> }

\* rows of therapy_chunks as match_therapy_chunks returns them
Corpus ==
    { [content |-> "stress doc", metadata |-> Metadata("stress"), similarity |-> 40],
      [content |-> "cbt doc", metadata |-> Metadata("cbt"), similarity |-> 60],
      [content |-> "bare doc"] }

\* response.data: at most match_count rows of the corpus, in any order
Responses ==
    UNION { { r \in [1..n -> Corpus] : \A i, j \in 1..n : i # j => r[i] # r[j] } :
            n \in 0..Min(CandidateCount, Cardinality(Corpus)) }

\* what the embedding service raises
EmbedErrors == {"ConfigurationException", "APIError"}

\* what search_similar raises: its own wrapping of an rpc failure, or the
\* error of row.get on a malformed response row
SearchErrors == {"RetrievalException", "AttributeError"}

(***************************************************************************)
(* State                                                                   *)
(***************************************************************************)
VARIABLES
    cache,        \* RetrievalService._cache: cache key -> final documents
    pc,           \* where each call of retrieve stands
    query,        \* the argument of each call
    query_topic,  \* its local query_topic
    results,      \* its local results (the rows search_similar returned)
    ret,          \* the value it returned
    raised,       \* the exception it raised
    err,          \* the exception e its except clause caught
    trace,        \* what it did so far: classify, embed, search, write
    calls,        \* how many calls each caller has started
    lastWriter,   \* cache key -> the caller that wrote the entry last
    documents,    \* argument of _apply_topic_boosting called on its own
    topic,        \* its query_topic argument
    boosted,      \* its return value
    reboosted,    \* the return value of a second call, made on boosted
    phase,        \* "input" before the call, "output" after it, "again"
                  \* after the second call
    topic_query,  \* argument of infer_topic_from_query called on its own
    topic_scores, \* its local topic_scores
    best_topic,   \* its return value
    topic_phase,  \* "input" before that call, "output" after it
    chat_pc,      \* where each /chat request stands in the handler
    risk_level,   \* its safety_result.risk_level
    chat_documents, \* its local documents
    response,     \* what it answered: status code, safety_status, sources_used
    invoked,      \* the services it called so far, in order
    metrics,      \* the Metrics singleton
    response_text, \* the text of its answer
    context,      \* the context it handed to llm_service.generate
    attempts,     \* how each attempt of that generate call ended, in order
    llm_raised,   \* the exception generate raised
    retrieved,    \* whether its retrieve call has returned
    embedding_service, \* the module global _embedding_service
    initialized,  \* EmbeddingService._initialized of the singleton
    provider,     \* settings.EMBEDDING_PROVIDER
    embedding_model, \* EmbeddingService._model
    azure_client, \* EmbeddingService._azure_client
    loads,        \* how many times the backend was constructed
    embed_pc      \* where each user of the embedding service stands

retrieveVars == << cache, pc, query, query_topic, results, ret, raised, err,
                   trace, calls, lastWriter >>
boostVars == << documents, topic, boosted, reboosted, phase >>
topicVars == << topic_query, topic_scores, best_topic, topic_phase >>
chatVars == << chat_pc, risk_level, chat_documents, response, invoked, metrics,
              response_text, context, attempts, llm_raised, retrieved >>
embedVars == << embedding_service, initialized, provider, embedding_model,
               azure_client, loads, embed_pc >>
otherVars == << boostVars, topicVars, chatVars, embedVars >>
vars == << cache, pc, query, query_topic, results, ret, raised, err,
           trace, calls, lastWriter, documents, topic, boosted, reboosted, phase,
           topic_query, topic_scores, best_topic, topic_phase,
           chat_pc, risk_level, chat_documents, response, invoked, metrics,
           response_text, context, attempts, llm_raised, retrieved,
           embedding_service, initialized, provider, embedding_model,
           azure_client, loads, embed_pc >>

\* RetrievalService.__init__, and no call of retrieve in flight
RetrieveInit ==
    /\ cache = << >>
    /\ pc = [p \in Callers |-> "idle"]
    /\ query = [p \in Callers |-> << >>]
    /\ query_topic = [p \in Callers |-> None]
    /\ results = [p \in Callers |-> << >>]
    /\ ret = [p \in Callers |-> << >>]
    /\ raised = [p \in Callers |-> None]
    /\ err = [p \in Callers |-> None]
    /\ trace = [p \in Callers |-> << >>]
    /\ calls = [p \in Callers |-> 0]
    /\ lastWriter = << >>

BoostIdle ==
    /\ documents = << >>
    /\ topic = None
    /\ boosted = << >>
    /\ reboosted = << >>
    /\ phase = "input"

TopicIdle ==
    /\ topic_query = << >>
    /\ topic_scores = << >>
    /\ best_topic = None
    /\ topic_phase = "input"

\* the /chat requests that can be in the handler at the same time
ChatRequests == {"r1", "r2"}

\* no response yet
NoResponse == [status_code |-> None, safety_status |-> None, sources_used |-> None]

\* Metrics(): the dataclass defaults; no request in the handler
ChatIdle ==
    /\ chat_pc = [r \in ChatRequests |-> "idle"]
    /\ risk_level = [r \in ChatRequests |-> None]
    /\ chat_documents = [r \in ChatRequests |-> << >>]
    /\ response = [r \in ChatRequests |-> NoResponse]
    /\ invoked = [r \in ChatRequests |-> << >>]
    /\ metrics = [total_requests |-> 0, safety_blocks |-> 0]
    /\ response_text = [r \in ChatRequests |-> None]
    /\ context = [r \in ChatRequests |-> << >>]
    /\ attempts = [r \in ChatRequests |-> << >>]
    /\ llm_raised = [r \in ChatRequests |-> None]
    /\ retrieved = [r \in ChatRequests |-> FALSE]

\* the users of the embedding service: calls of retrieve at lines 159-160
EmbedCallers == {"e1", "e2", "e3"}

\* embedding_service.py 14-16, 99: no singleton, no model, no client
EmbedIdle ==
    /\ embedding_service = None
    /\ initialized = FALSE
    /\ provider = "local"
    /\ embedding_model = None
    /\ azure_client = None
    /\ loads = 0
    /\ embed_pc = [p \in EmbedCallers |-> "idle"]

Init == RetrieveInit /\ BoostIdle /\ TopicIdle /\ ChatIdle /\ EmbedIdle

(***************************************************************************)
(* retrieve, one action per stretch between two awaits.  The awaits are    *)
(* embedding_service.embed_single (line 160) and database.search_similar   *)
(* (line 170); other calls may run while one of them is pending.           *)
(***************************************************************************)
RECURSIVE Sum(_, _)
Sum(f, S) ==
    IF S = {} THEN 0
    ELSE LET x == CHOOSE x \in S : TRUE IN f[x] + Sum(f, S \ {x})

\* a caller is free to call retrieve: it has no call in flight
Free(p) ==
    /\ pc[p] \in {"idle", "returned", "raised"}
    /\ Sum(calls, Callers) < MaxCalls

\* the topic inferred before the cache is looked up
RetrieveHitClassifyFirst(p, q) ==
    /\ Free(p)
    /\ CacheHit(cache, CacheKey(q))
    /\ query' = [query EXCEPT ![p] = q]
    /\ ret' = [ret EXCEPT ![p] = cache[CacheKey(q)]]
    /\ pc' = [pc EXCEPT ![p] = "returned"]
    /\ query_topic' = [query_topic EXCEPT ![p] = InferTopic(q)]
    /\ results' = [results EXCEPT ![p] = << >>]
    /\ raised' = [raised EXCEPT ![p] = None]
    /\ err' = [err EXCEPT ![p] = None]
    /\ trace' = [trace EXCEPT ![p] = <<"classify">>]
    /\ calls' = [calls EXCEPT ![p] = @ + 1]
    /\ UNCHANGED << cache, lastWriter >>
    /\ UNCHANGED otherVars

\* lines 145-147: the key is in the cache
RetrieveHit(p, q) ==
    /\ Free(p)
    /\ CacheHit(cache, CacheKey(q))
    /\ query' = [query EXCEPT ![p] = q]
    /\ ret' = [ret EXCEPT ![p] = cache[CacheKey(q)]]
    /\ pc' = [pc EXCEPT ![p] = "returned"]
    /\ query_topic' = [query_topic EXCEPT ![p] = None]
    /\ results' = [results EXCEPT ![p] = << >>]
    /\ raised' = [raised EXCEPT ![p] = None]
    /\ err' = [err EXCEPT ![p] = None]
    /\ trace' = [trace EXCEPT ![p] = << >>]
    /\ calls' = [calls EXCEPT ![p] = @ + 1]
    /\ UNCHANGED << cache, lastWriter >>
    /\ UNCHANGED otherVars

\* lines 145-160: the key is not in the cache; classify, ask for the embedding
RetrieveMiss(p, q) ==
    /\ Free(p)
    /\ ~CacheHit(cache, CacheKey(q))
    /\ query' = [query EXCEPT ![p] = q]
    /\ query_topic' = [query_topic EXCEPT ![p] = InferTopic(q)]
    /\ trace' = [trace EXCEPT ![p] = <<"classify", "embed">>]
    /\ pc' = [pc EXCEPT ![p] = "embedding"]
    /\ results' = [results EXCEPT ![p] = << >>]
    /\ ret' = [ret EXCEPT ![p] = << >>]
    /\ raised' = [raised EXCEPT ![p] = None]
    /\ err' = [err EXCEPT ![p] = None]
    /\ calls' = [calls EXCEPT ![p] = @ + 1]
    /\ UNCHANGED << cache, lastWriter >>
    /\ UNCHANGED otherVars

\* lines 160-174: the embedding arrived; ask the database
EmbedReturn(p) ==
    /\ pc[p] = "embedding"
    /\ trace' = [trace EXCEPT ![p] = Append(@, "search")]
    /\ pc' = [pc EXCEPT ![p] = "searching"]
    /\ UNCHANGED << cache, query, query_topic, results, ret, raised, err,
                    calls, lastWriter >>
    /\ UNCHANGED otherVars

\* the failure of the embedding swallowed: the search is made all the same
EmbedRaiseThenSearch(p, e) ==
    /\ pc[p] = "embedding"
    /\ err' = [err EXCEPT ![p] = e]
    /\ trace' = [trace EXCEPT ![p] = Append(@, "search")]
    /\ pc' = [pc EXCEPT ![p] = "searching"]
    /\ UNCHANGED << cache, query, query_topic, results, ret, raised,
                    calls, lastWriter >>
    /\ UNCHANGED otherVars

\* lines 159-160, 211-213: get_embedding_service or embed_single raised e
EmbedRaise(p, e) ==
    /\ pc[p] = "embedding"
    /\ err' = [err EXCEPT ![p] = e]
    /\ raised' = [raised EXCEPT ![p] = Reraise(e)]
    /\ pc' = [pc EXCEPT ![p] = "raised"]
    /\ UNCHANGED << cache, query, query_topic, results, ret, trace,
                    calls, lastWriter >>
    /\ UNCHANGED otherVars

\* search_similar raised e, and the empty list was stored on the way out
SearchRaiseCached(p, e) ==
    /\ pc[p] = "searching"
    /\ err' = [err EXCEPT ![p] = e]
    /\ raised' = [raised EXCEPT ![p] = Reraise(e)]
    /\ cache' = CachePut(cache, CacheKey(query[p]), << >>)
    /\ pc' = [pc EXCEPT ![p] = "raised"]
    /\ UNCHANGED << query, query_topic, results, ret, trace, calls, lastWriter >>
    /\ UNCHANGED otherVars

\* lines 170-174, 211-213: search_similar raised e
SearchRaise(p, e) ==
    /\ pc[p] = "searching"
    /\ err' = [err EXCEPT ![p] = e]
    /\ raised' = [raised EXCEPT ![p] = Reraise(e)]
    /\ pc' = [pc EXCEPT ![p] = "raised"]
    /\ UNCHANGED << cache, query, query_topic, results, ret, trace,
                    calls, lastWriter >>
    /\ UNCHANGED otherVars

\* lines 170-209: the rows arrived; convert, rerank, cut, store, return
SearchReturn(p, data) ==
    /\ pc[p] = "searching"
    /\ ~RerankRaises(SearchResults(data), query_topic[p])
    /\ LET rows == SearchResults(data)
           final_documents == FinalDocuments(rows, query_topic[p])
       IN  /\ results' = [results EXCEPT ![p] = rows]
           /\ cache' = CachePut(cache, CacheKey(query[p]), final_documents)
           /\ ret' = [ret EXCEPT ![p] = final_documents]
    /\ lastWriter' = [k \in DOMAIN lastWriter \cup {CacheKey(query[p])} |->
                        IF k = CacheKey(query[p]) THEN p ELSE lastWriter[k]]
    /\ trace' = [trace EXCEPT ![p] = Append(@, "write")]
    /\ pc' = [pc EXCEPT ![p] = "returned"]
    /\ UNCHANGED << query, query_topic, raised, err, calls >>
    /\ UNCHANGED otherVars

\* lines 170-194, 211-213: the rows arrived and _apply_topic_boosting raised
\* on a document without metadata
RerankRaise(p, data) ==
    /\ pc[p] = "searching"
    /\ RerankRaises(SearchResults(data), query_topic[p])
    /\ results' = [results EXCEPT ![p] = SearchResults(data)]
    /\ err' = [err EXCEPT ![p] = "AttributeError"]
    /\ raised' = [raised EXCEPT ![p] = Reraise("AttributeError")]
    /\ pc' = [pc EXCEPT ![p] = "raised"]
    /\ UNCHANGED << cache, query, query_topic, ret, trace, calls, lastWriter >>
    /\ UNCHANGED otherVars

Next ==
    \/ \E p \in Callers, q \in Queries : RetrieveHit(p, q)
    \/ \E p \in Callers, q \in Queries : RetrieveMiss(p, q)
    \/ \E p \in Callers : EmbedReturn(p)
    \/ \E p \in Callers, e \in EmbedErrors : EmbedRaise(p, e)
    \/ \E p \in Callers, data \in Responses : SearchReturn(p, data)
    \/ \E p \in Callers, e \in SearchErrors : SearchRaise(p, e)

Spec == Init /\ [][Next]_vars

(***************************************************************************)
(* Calls of retrieve one after the other: a call starts only when no other *)
(* call is in flight                                                       *)
(***************************************************************************)
Quiet == \A p \in Callers : pc[p] \in {"idle", "returned", "raised"}

SeqNext ==
    \/ \E p \in Callers, q \in Queries : Quiet /\ RetrieveHit(p, q)
    \/ \E p \in Callers, q \in Queries : Quiet /\ RetrieveMiss(p, q)
    \/ \E p \in Callers : EmbedReturn(p)
    \/ \E p \in Callers, e \in EmbedErrors : EmbedRaise(p, e)
    \/ \E p \in Callers, data \in Responses : SearchReturn(p, data)
    \/ \E p \in Callers, e \in SearchErrors : SearchRaise(p, e)

SeqSpec == Init /\ [][SeqNext]_vars

(***************************************************************************)
(* Calls of retrieve one after the other over every kind of row the        *)
(* similarity store can return: the topic null or absent, the metadata     *)
(* null or absent, the similarity absent                                   *)
(***************************************************************************)
WideCorpus ==
    Corpus \cup
    { [content |-> "null topic doc", metadata |-> Metadata(None), similarity |-> 40],
      [content |-> "no score doc", metadata |-> Metadata("stress")],
      [content |-> "null metadata doc", metadata |-> NullMetadata, similarity |-> 60] }

\* response.data over these rows, at most top-k of them
WideResponses ==
    UNION { { r \in [1..n -> WideCorpus] : \A i, j \in 1..n : i # j => r[i] # r[j] } :
            n \in 0..RETRIEVAL_TOP_K }

RowsNext ==
    \/ \E p \in Callers, q \in Queries : Quiet /\ RetrieveHit(p, q)
    \/ \E p \in Callers, q \in Queries : Quiet /\ RetrieveMiss(p, q)
    \/ \E p \in Callers : EmbedReturn(p)
    \/ \E p \in Callers, e \in EmbedErrors : EmbedRaise(p, e)
    \/ \E p \in Callers, data \in WideResponses : SearchReturn(p, data)
    \/ \E p \in Callers, data \in WideResponses : RerankRaise(p, data)
    \/ \E p \in Callers, e \in SearchErrors : SearchRaise(p, e)

RowsSpec == Init /\ [][RowsNext]_vars

(***************************************************************************)
(* _apply_topic_boosting called on its own, as the unit tests call it      *)
(***************************************************************************)
DocUniverse ==
    { Document(c, m, sc) :
        c \in {"a", "b"},
        m \in {Metadata("stress"), Metadata("cbt"), EmptyMetadata},
        sc \in {40, 60, 95, 105} }

DocSeqs == UNION { [1..n -> DocUniverse] : n \in 0..MaxDocs }

BoostTopics == {None, "stress"}

BoostInit ==
    /\ RetrieveInit
    /\ TopicIdle
    /\ ChatIdle
    /\ EmbedIdle
    /\ documents \in DocSeqs
    /\ topic \in BoostTopics
    /\ boosted = << >>
    /\ reboosted = << >>
    /\ phase = "input"

\* the boost written into the documents of the argument, and the argument
\* sorted in place (doc.score = new_score; documents.sort(...))
BoostInPlace ==
    /\ phase = "input"
    /\ documents' = ApplyTopicBoosting(documents, topic)
    /\ boosted' = ApplyTopicBoosting(documents, topic)
    /\ phase' = "output"
    /\ UNCHANGED << topic, reboosted >>
    /\ UNCHANGED << retrieveVars, topicVars, chatVars, embedVars >>

Boost ==
    /\ phase = "input"
    /\ boosted' = ApplyTopicBoosting(documents, topic)
    /\ phase' = "output"
    /\ UNCHANGED << documents, topic, reboosted >>
    /\ UNCHANGED << retrieveVars, topicVars, chatVars, embedVars >>

\* _apply_topic_boosting called with the same topic on what it returned
BoostAgain ==
    /\ phase = "output"
    /\ reboosted' = ApplyTopicBoosting(boosted, topic)
    /\ phase' = "again"
    /\ UNCHANGED << documents, topic, boosted >>
    /\ UNCHANGED << retrieveVars, topicVars, chatVars, embedVars >>

BoostNext == Boost \/ BoostAgain

BoostSpec == BoostInit /\ [][BoostNext]_vars

(***************************************************************************)
(* A caller of _apply_topic_boosting keeps its argument while calls of     *)
(* retrieve go on one after the other                                      *)
(***************************************************************************)
\* docs of test_apply_topic_boosting
TestDocs == << Document("a", Metadata("stress"), 40),
               Document("b", Metadata("cbt"), 60) >>

FrameInit ==
    /\ RetrieveInit
    /\ TopicIdle
    /\ ChatIdle
    /\ EmbedIdle
    /\ documents = TestDocs
    /\ topic \in BoostTopics
    /\ boosted = << >>
    /\ reboosted = << >>
    /\ phase = "input"

FrameNext ==
    \/ Boost
    \/ \E p \in Callers, q \in Queries : Quiet /\ RetrieveHit(p, q)
    \/ \E p \in Callers, q \in Queries : Quiet /\ RetrieveMiss(p, q)
    \/ \E p \in Callers : EmbedReturn(p)
    \/ \E p \in Callers, e \in EmbedErrors : EmbedRaise(p, e)
    \/ \E p \in Callers, data \in Responses : SearchReturn(p, data)
    \/ \E p \in Callers, e \in SearchErrors : SearchRaise(p, e)

FrameSpec == FrameInit /\ [][FrameNext]_vars

(***************************************************************************)
(* infer_topic_from_query called on its own, as the unit tests call it     *)
(***************************************************************************)
\* words of the queries: keywords of four topics, the second words of three
\* idioms, and a word no pattern knows
TopicWords ==
    {"Stress", "stressed", "out", "Panic", "attack", "sad", "cbt",
     "breathing", "hello"}

\* the words of a query with one blank between two of them
Spaced(ws) ==
    [i \in 1..(2 * Len(ws) - 1) |-> IF i % 2 = 1 THEN ws[(i + 1) \div 2] ELSE Space]

TopicQueries == { Spaced(ws) : ws \in UNION { [1..n -> TopicWords] : n \in 1..MaxWords } }

TopicInit ==
    /\ RetrieveInit
    /\ BoostIdle
    /\ ChatIdle
    /\ EmbedIdle
    /\ topic_query \in TopicQueries
    /\ topic_scores = << >>
    /\ best_topic = None
    /\ topic_phase = "input"

InferTopicFromQuery ==
    /\ topic_phase = "input"
    /\ topic_scores' = TopicScores(topic_query)
    /\ best_topic' = InferTopic(topic_query)
    /\ topic_phase' = "output"
    /\ UNCHANGED topic_query
    /\ UNCHANGED << retrieveVars, boostVars, chatVars, embedVars >>

TopicSpec == TopicInit /\ [][InferTopicFromQuery]_vars

(***************************************************************************)
(* The /chat handler (src/src/api/routes.py), one action per stretch       *)
(* between two awaits: retrieval_service.retrieve (line 88) and            *)
(* llm_service.generate (line 125).  The services are taken by what they   *)
(* hand back to the handler.                                               *)
(***************************************************************************)
\* SafetyService.check: the risk levels of a SafetyResult
RiskLevels == {"high", "medium", "low"}

\* what retrieve can return to the handler
ChatDocuments == { FirstTopK(ToDocuments(SearchResults(data))) : data \in Responses }

\* ChatResponse(...) sent with status 200
ChatResponse(safety_status, sources_used) ==
    [status_code |-> 200, safety_status |-> safety_status, sources_used |-> sources_used]

\* raise HTTPException(status_code=...)
HTTPException(status_code) ==
    [status_code |-> status_code, safety_status |-> None, sources_used |-> None]

\* Metrics.record_request
RecordRequest(m, safety_blocked) ==
    [total_requests |-> m.total_requests + 1,
     safety_blocks |-> IF safety_blocked THEN m.safety_blocks + 1 ELSE m.safety_blocks]

\* safety_result.message or "Please contact a crisis helpline."
CrisisMessage == "crisis message"

\* the fixed text answered when retrieve found nothing
FallbackMessage == "fallback message"

\* response.choices[0].message.content
LLMTexts == {"answer"}

\* what one attempt of generate can fail with: an error of the API call,
\* or asyncio.TimeoutError
LLMErrors == {"APIError", "TimeoutError"}

\* context = [doc.content for doc in documents]
Contents(docs) == [i \in 1..Len(docs) |-> docs[i].content]

\* the handler without "if safety_result.risk_level == 'high'": every
\* request goes on to the retrieval
ChatCheckNeverBlocks(r, risk) ==
    /\ chat_pc[r] = "idle"
    /\ risk_level' = [risk_level EXCEPT ![r] = risk]
    /\ invoked' = [invoked EXCEPT ![r] = <<"safety", "retrieval">>]
    /\ chat_pc' = [chat_pc EXCEPT ![r] = "retrieving"]
    /\ UNCHANGED << metrics, response, chat_documents, response_text, context,
                    attempts, llm_raised >>
    /\ UNCHANGED retrieved
    /\ UNCHANGED << retrieveVars, boostVars, topicVars, embedVars >>

\* lines 31-88: the safety check; a high risk is answered at once, any
\* other goes on to the retrieval
ChatCheck(r, risk) ==
    /\ chat_pc[r] = "idle"
    /\ risk_level' = [risk_level EXCEPT ![r] = risk]
    /\ IF risk = "high"
       THEN /\ metrics' = RecordRequest(metrics, TRUE)
            /\ response' = [response EXCEPT ![r] = ChatResponse("blocked", 0)]
            /\ response_text' = [response_text EXCEPT ![r] = CrisisMessage]
            /\ invoked' = [invoked EXCEPT ![r] = <<"safety">>]
            /\ chat_pc' = [chat_pc EXCEPT ![r] = "done"]
       ELSE /\ invoked' = [invoked EXCEPT ![r] = <<"safety", "retrieval">>]
            /\ chat_pc' = [chat_pc EXCEPT ![r] = "retrieving"]
            /\ UNCHANGED << metrics, response, response_text >>
    /\ UNCHANGED << chat_documents, context, attempts, llm_raised >>
    /\ UNCHANGED retrieved
    /\ UNCHANGED << retrieveVars, boostVars, topicVars, embedVars >>

\* the handler without "if not documents": the LLM is asked also when
\* retrieve returned nothing
ChatRetrievedAlwaysGenerates(r, docs) ==
    /\ chat_pc[r] = "retrieving"
    /\ chat_documents' = [chat_documents EXCEPT ![r] = docs]
    /\ retrieved' = [retrieved EXCEPT ![r] = TRUE]
    /\ context' = [context EXCEPT ![r] = Contents(docs)]
    /\ invoked' = [invoked EXCEPT ![r] = Append(@, "llm")]
    /\ chat_pc' = [chat_pc EXCEPT ![r] = "generating"]
    /\ UNCHANGED << response, response_text >>
    /\ UNCHANGED << risk_level, metrics, attempts, llm_raised >>
    /\ UNCHANGED << retrieveVars, boostVars, topicVars, embedVars >>

\* lines 88-125: retrieve returned; without documents the fallback is
\* answered, with documents generate is called and makes its first attempt
ChatRetrieved(r, docs) ==
    /\ chat_pc[r] = "retrieving"
    /\ chat_documents' = [chat_documents EXCEPT ![r] = docs]
    /\ retrieved' = [retrieved EXCEPT ![r] = TRUE]
    /\ IF docs = << >>
       THEN /\ response' = [response EXCEPT ![r] = ChatResponse("pass", 0)]
            /\ response_text' = [response_text EXCEPT ![r] = FallbackMessage]
            /\ chat_pc' = [chat_pc EXCEPT ![r] = "done"]
            /\ UNCHANGED << invoked, context >>
       ELSE /\ context' = [context EXCEPT ![r] = Contents(docs)]
            /\ invoked' = [invoked EXCEPT ![r] = Append(@, "llm")]
            /\ chat_pc' = [chat_pc EXCEPT ![r] = "generating"]
            /\ UNCHANGED << response, response_text >>
    /\ UNCHANGED << risk_level, metrics, attempts, llm_raised >>
    /\ UNCHANGED << retrieveVars, boostVars, topicVars, embedVars >>

\* lines 88, 166-170: retrieve raised RetrievalException
ChatRetrieveRaised(r) ==
    /\ chat_pc[r] = "retrieving"
    /\ response' = [response EXCEPT ![r] = HTTPException(500)]
    /\ chat_pc' = [chat_pc EXCEPT ![r] = "done"]
    /\ UNCHANGED << risk_level, chat_documents, invoked, metrics,
                    response_text, context, attempts, llm_raised >>
    /\ UNCHANGED retrieved
    /\ UNCHANGED << retrieveVars, boostVars, topicVars, embedVars >>

\* sources_used taken from the setting instead of the documents
ChatGeneratedCountsTopK(r, text) ==
    /\ chat_pc[r] = "generating"
    /\ attempts' = [attempts EXCEPT ![r] = Append(@, "ok")]
    /\ metrics' = RecordRequest(metrics, risk_level[r] # "low")
    /\ response' = [response EXCEPT ![r] =
                        ChatResponse(IF risk_level[r] = "medium" THEN "warning" ELSE "pass",
                                     RETRIEVAL_TOP_K)]
    /\ response_text' = [response_text EXCEPT ![r] = text]
    /\ chat_pc' = [chat_pc EXCEPT ![r] = "done"]
    /\ UNCHANGED << risk_level, chat_documents, invoked, context, llm_raised >>
    /\ UNCHANGED retrieved
    /\ UNCHANGED << retrieveVars, boostVars, topicVars, embedVars >>

\* llm_service.py 97-107, routes.py 125-160: the attempt of generate in
\* flight returned the text
ChatGenerated(r, text) ==
    /\ chat_pc[r] = "generating"
    /\ attempts' = [attempts EXCEPT ![r] = Append(@, "ok")]
    /\ metrics' = RecordRequest(metrics, risk_level[r] # "low")
    /\ response' = [response EXCEPT ![r] =
                        ChatResponse(IF risk_level[r] = "medium" THEN "warning" ELSE "pass",
                                     Len(chat_documents[r]))]
    /\ response_text' = [response_text EXCEPT ![r] = text]
    /\ chat_pc' = [chat_pc EXCEPT ![r] = "done"]
    /\ UNCHANGED << risk_level, chat_documents, invoked, context, llm_raised >>
    /\ UNCHANGED retrieved
    /\ UNCHANGED << retrieveVars, boostVars, topicVars, embedVars >>

\* a retry decorator that stops one attempt later
ChatGenerateRetriedOnceMore(r, e) ==
    /\ chat_pc[r] = "generating"
    /\ Len(attempts[r]) + 1 < LLM_MAX_ATTEMPTS + 1
    /\ attempts' = [attempts EXCEPT ![r] = Append(@, e)]
    /\ UNCHANGED << chat_pc, risk_level, chat_documents, response, invoked,
                    metrics, response_text, context, llm_raised >>
    /\ UNCHANGED retrieved
    /\ UNCHANGED << retrieveVars, boostVars, topicVars, embedVars >>

\* llm_service.py 83-111: the attempt in flight failed with e, wrapped into
\* LLMException, and it was not the last one allowed: the next one is made
ChatGenerateRetried(r, e) ==
    /\ chat_pc[r] = "generating"
    /\ Len(attempts[r]) + 1 < LLM_MAX_ATTEMPTS
    /\ attempts' = [attempts EXCEPT ![r] = Append(@, e)]
    /\ UNCHANGED << chat_pc, risk_level, chat_documents, response, invoked,
                    metrics, response_text, context, llm_raised >>
    /\ UNCHANGED retrieved
    /\ UNCHANGED << retrieveVars, boostVars, topicVars, embedVars >>

\* llm_service.py 83-111, routes.py 166-170: the last attempt allowed failed
\* with e; generate raised LLMException and the handler answered 500
ChatGenerateRaised(r, e) ==
    /\ chat_pc[r] = "generating"
    /\ Len(attempts[r]) + 1 >= LLM_MAX_ATTEMPTS
    /\ attempts' = [attempts EXCEPT ![r] = Append(@, e)]
    /\ llm_raised' = [llm_raised EXCEPT ![r] = "LLMException"]
    /\ response' = [response EXCEPT ![r] = HTTPException(500)]
    /\ chat_pc' = [chat_pc EXCEPT ![r] = "done"]
    /\ UNCHANGED << risk_level, chat_documents, invoked, metrics,
                    response_text, context >>
    /\ UNCHANGED retrieved
    /\ UNCHANGED << retrieveVars, boostVars, topicVars, embedVars >>

ChatNext ==
    \/ \E r \in ChatRequests, risk \in RiskLevels : ChatCheck(r, risk)
    \/ \E r \in ChatRequests, docs \in ChatDocuments : ChatRetrieved(r, docs)
    \/ \E r \in ChatRequests : ChatRetrieveRaised(r)
    \/ \E r \in ChatRequests, text \in LLMTexts : ChatGenerated(r, text)
    \/ \E r \in ChatRequests, e \in LLMErrors : ChatGenerateRetried(r, e)
    \/ \E r \in ChatRequests, e \in LLMErrors : ChatGenerateRaised(r, e)

ChatSpec == Init /\ [][ChatNext]_vars

(***************************************************************************)
(* The embedding service singleton: get_embedding_service and embed as the *)
(* calls of retrieve use them, one action per stretch between two awaits   *)
(***************************************************************************)
Providers == {"azure", "local"}

EmbedInit ==
    /\ RetrieveInit
    /\ BoostIdle
    /\ TopicIdle
    /\ ChatIdle
    /\ embedding_service = None
    /\ initialized = FALSE
    /\ provider \in Providers
    /\ embedding_model = None
    /\ azure_client = None
    /\ loads = 0
    /\ embed_pc = [p \in EmbedCallers |-> "idle"]

\* initialize, lines 28-57, entered with _initialized false: the azure
\* client is built without an await; the local model is loaded in the
\* executor and the caller is suspended until it is there
InitializeStart(p, awaiting, after) ==
    /\ loads' = loads + 1
    /\ IF provider = "azure"
       THEN /\ azure_client' = "AsyncAzureOpenAI"
            /\ initialized' = TRUE
            /\ embed_pc' = [embed_pc EXCEPT ![p] = after]
            /\ UNCHANGED embedding_model
       ELSE /\ embed_pc' = [embed_pc EXCEPT ![p] = awaiting]
            /\ UNCHANGED << initialized, embedding_model, azure_client >>

\* lines 102-108: the global is set before initialize is awaited
GetEmbeddingService(p) ==
    /\ embed_pc[p] = "idle"
    /\ IF embedding_service = None
       THEN /\ embedding_service' = "EmbeddingService"
            /\ InitializeStart(p, "loading", "got")
       ELSE /\ embed_pc' = [embed_pc EXCEPT ![p] = "got"]
            /\ UNCHANGED << embedding_service, initialized, embedding_model,
                            azure_client, loads >>
    /\ UNCHANGED provider
    /\ UNCHANGED << retrieveVars, boostVars, topicVars, chatVars >>

\* lines 65-90: embed initializes a service that is not initialized, then
\* awaits the encoding
Embed(p) ==
    /\ embed_pc[p] = "got"
    /\ IF ~initialized
       THEN InitializeStart(p, "reloading", "encoding")
       ELSE /\ embed_pc' = [embed_pc EXCEPT ![p] = "encoding"]
            /\ UNCHANGED << initialized, embedding_model, azure_client, loads >>
    /\ UNCHANGED << embedding_service, provider >>
    /\ UNCHANGED << retrieveVars, boostVars, topicVars, chatVars >>

\* lines 54-57: the executor returned the model
LoadReturn(p) ==
    /\ embed_pc[p] \in {"loading", "reloading"}
    /\ embedding_model' = "SentenceTransformer"
    /\ initialized' = TRUE
    /\ embed_pc' = [embed_pc EXCEPT ![p] =
                        IF embed_pc[p] = "loading" THEN "got" ELSE "encoding"]
    /\ UNCHANGED << embedding_service, provider, azure_client, loads >>
    /\ UNCHANGED << retrieveVars, boostVars, topicVars, chatVars >>

\* lines 54, 62-63: loading the model failed, ConfigurationException
LoadRaise(p) ==
    /\ embed_pc[p] \in {"loading", "reloading"}
    /\ embed_pc' = [embed_pc EXCEPT ![p] = "raised"]
    /\ UNCHANGED << embedding_service, initialized, provider, embedding_model,
                    azure_client, loads >>
    /\ UNCHANGED << retrieveVars, boostVars, topicVars, chatVars >>

\* lines 80-81, 88-91: the encoding returned
EncodeReturn(p) ==
    /\ embed_pc[p] = "encoding"
    /\ embed_pc' = [embed_pc EXCEPT ![p] = "returned"]
    /\ UNCHANGED << embedding_service, initialized, provider, embedding_model,
                    azure_client, loads >>
    /\ UNCHANGED << retrieveVars, boostVars, topicVars, chatVars >>

EmbedNext ==
    \/ \E p \in EmbedCallers : GetEmbeddingService(p)
    \/ \E p \in EmbedCallers : Embed(p)
    \/ \E p \in EmbedCallers : LoadReturn(p)
    \/ \E p \in EmbedCallers : LoadRaise(p)
    \/ \E p \in EmbedCallers : EncodeReturn(p)

EmbedSpec == EmbedInit /\ [][EmbedNext]_vars

(***************************************************************************)
(* Vocabulary of the properties                                            *)
(***************************************************************************)
Range(f) == {f[i] : i \in DOMAIN f}

Returned(p) == pc[p] = "returned"

\* the call went past the cache lookup
Missed(p) == trace[p] # << >>

FullMiss == <<"classify", "embed", "search", "write">>

\* two queries differ only by letter case or surrounding whitespace
Fold(q) == Lower(Strip(q))
SameKey(q1, q2) == Fold(q1) = Fold(q2)

SortedDescending(docs) ==
    \A i, j \in 1..Len(docs) : i < j => docs[i].score >= docs[j].score

IndexPermutations(n) ==
    { f \in [1..n -> 1..n] : \A i, j \in 1..n : i # j => f[i] # f[j] }

\* the step is the start of a call by p
Starts(p) == calls'[p] = calls[p] + 1

(***************************************************************************)
(* C1  Every sequence retrieve returns, from the cache or freshly          *)
(* computed, has at most RETRIEVAL_TOP_K documents.                        *)
(***************************************************************************)
C1_LengthAtMostTopK ==
    \A p \in Callers : Returned(p) => Len(ret[p]) <= RETRIEVAL_TOP_K

\* more candidates than top-k were cut to exactly top-k, and another call
\* got that result from the cache
C1_Witness ==
    \E p1, p2 \in Callers :
        /\ Returned(p1) /\ Missed(p1)
        /\ Len(results[p1]) > RETRIEVAL_TOP_K
        /\ Len(ret[p1]) = RETRIEVAL_TOP_K
        /\ Returned(p2) /\ ~Missed(p2)
        /\ ret[p2] = ret[p1]

(***************************************************************************)
(* C2  Every sequence retrieve returns is sorted by score, highest first,  *)
(* whether or not a topic was inferred and whatever the order of the rows  *)
(* the similarity store returned.                                          *)
(***************************************************************************)
C2_SortedDescending ==
    \A p \in Callers : Returned(p) => SortedDescending(ret[p])

(***************************************************************************)
(* C3  When the store returns at least top-k candidates, retrieve returns  *)
(* exactly top-k documents and no candidate left out has a post-rerank     *)
(* score strictly greater than the score of a returned document.           *)
(***************************************************************************)
PostRerankScore(result, t) ==
    IF Truthy(t)
    THEN NewScore(Document(result.content, result.metadata, result.score), t)
    ELSE result.score

C3_TruncationKeepsBest ==
    \A p \in Callers :
        (Returned(p) /\ Missed(p) /\ Len(results[p]) >= RETRIEVAL_TOP_K) =>
            /\ Len(ret[p]) = RETRIEVAL_TOP_K
            /\ \A i \in 1..Len(results[p]) :
                  (\A k \in 1..Len(ret[p]) : ret[p][k].content # results[p][i].content)
                  => \A k \in 1..Len(ret[p]) :
                        PostRerankScore(results[p][i], query_topic[p]) <= ret[p][k].score

(***************************************************************************)
(* C4  Of two calls made one after the other with queries that differ only *)
(* by letter case or surrounding whitespace, the second makes no embedding *)
(* call and no similarity-store call and returns what the first returned.  *)
(***************************************************************************)
C4_SameEntryForSameKey ==
    \A p1, p2 \in Callers :
        (p1 # p2 /\ Returned(p1) /\ Returned(p2) /\ SameKey(query[p1], query[p2])) =>
            /\ ret[p1] = ret[p2]
            /\ trace[p1] = << >> \/ trace[p2] = << >>

\* "Stress" computed a non-empty result and "  stress  " got it from the cache
C4_Witness ==
    \E p1, p2 \in Callers :
        /\ Returned(p1) /\ Returned(p2)
        /\ query[p1] # query[p2] /\ SameKey(query[p1], query[p2])
        /\ trace[p1] = FullMiss /\ trace[p2] = << >>
        /\ ret[p1] # << >> /\ ret[p2] = ret[p1]

(***************************************************************************)
(* C5  A call of retrieve that fails leaves the cache as it was: a step in *)
(* which a call raises changes no entry, and the cache changes only in the *)
(* step in which a call completes successfully, by that call's result      *)
(* under that call's key.                                                  *)
(***************************************************************************)
C5_FailureLeavesCache ==
    [][ /\ \A p \in Callers :
              (pc[p] \in {"embedding", "searching"} /\ err'[p] # None) => cache' = cache
        /\ cache' # cache =>
              \E p \in Callers :
                  /\ pc[p] = "searching" /\ pc'[p] = "returned"
                  /\ err'[p] = None /\ raised'[p] = None
                  /\ cache' = [k \in DOMAIN cache \cup {Fold(query[p])} |->
                                 IF k = Fold(query[p]) THEN ret'[p] ELSE cache[k]]
      ]_vars

\* a call failed in the similarity search; its key is not in the cache, the
\* entry of another key is
C5_Witness ==
    \E p \in Callers :
        /\ pc[p] = "raised" /\ trace[p] = <<"classify", "embed", "search">>
        /\ Fold(query[p]) \notin DOMAIN cache
        /\ cache # << >>

(***************************************************************************)
(* C6  Every failure of the embedding provider or of the similarity store  *)
(* ends the call with a RetrievalException; no call that met a failure     *)
(* returns a value.                                                        *)
(***************************************************************************)
C6_FailureIsRetrievalException ==
    \A p \in Callers :
        /\ err[p] # None => (pc[p] = "raised" /\ raised[p] = "RetrievalException")
        /\ Returned(p) => (err[p] = None /\ raised[p] = None)

\* a configuration error of the embedding service came out as RetrievalException
C6_Witness ==
    \E p \in Callers :
        /\ pc[p] = "raised" /\ err[p] = "ConfigurationException"
        /\ raised[p] = "RetrievalException"
        /\ trace[p] = <<"classify", "embed">>

(***************************************************************************)
(* C7  An empty candidate set is a success: the call returns the empty     *)
(* sequence, the empty sequence is the cache entry of its key, and a later *)
(* call for that key makes no embedding or similarity-store call.          *)
(***************************************************************************)
C7_EmptyResultCached ==
    \A p \in Callers :
        (Returned(p) /\ Missed(p) /\ results[p] = << >>) =>
            /\ ret[p] = << >> /\ raised[p] = None
            /\ Fold(query[p]) \in DOMAIN cache /\ cache[Fold(query[p])] = << >>
            /\ \A p2 \in Callers \ {p} :
                  (Returned(p2) /\ SameKey(query[p2], query[p])) =>
                      (trace[p2] = << >> /\ ret[p2] = << >>)

\* an empty candidate set was returned and cached, and a later call hit it
C7_Witness ==
    \E p, p2 \in Callers :
        /\ Returned(p) /\ trace[p] = FullMiss /\ results[p] = << >> /\ ret[p] = << >>
        /\ Returned(p2) /\ p2 # p /\ SameKey(query[p2], query[p])
        /\ trace[p2] = << >> /\ ret[p2] = << >>

(***************************************************************************)
(* C8  A call that finds its key in the cache returns the cached sequence  *)
(* in the same step: no classification, no embedding call, no similarity   *)
(* search and no cache write.                                              *)
(***************************************************************************)
C8_HitReturnsImmediately ==
    [][ \A p \in Callers :
            (Starts(p) /\ Fold(query'[p]) \in DOMAIN cache) =>
                /\ pc'[p] = "returned"
                /\ ret'[p] = cache[Fold(query'[p])]
                /\ trace'[p] = << >>
                /\ cache' = cache
      ]_vars

\* a call returned from the cache while another call is still in flight
C8_Witness ==
    \E p, p2 \in Callers :
        /\ Returned(p) /\ trace[p] = << >> /\ ret[p] # << >>
        /\ ret[p] = cache[Fold(query[p])]
        /\ pc[p2] = "embedding"

(***************************************************************************)
(* C9  Two calls for the same key that both missed the cache each make     *)
(* their own embedding call and similarity search, both return, both write *)
(* the cache, and the entry is the result of the one that wrote last.      *)
(***************************************************************************)
C9_LastWriteWins ==
    \A p1, p2 \in Callers :
        (/\ p1 # p2 /\ Returned(p1) /\ Returned(p2)
         /\ Missed(p1) /\ Missed(p2)
         /\ SameKey(query[p1], query[p2])) =>
            /\ trace[p1] = FullMiss /\ trace[p2] = FullMiss
            /\ raised[p1] = None /\ raised[p2] = None
            /\ lastWriter[Fold(query[p1])] \in {p1, p2}
            /\ cache[Fold(query[p1])] = ret[lastWriter[Fold(query[p1])]]

\* both missed, they returned different results, the entry is the later one
C9_Witness ==
    \E p1, p2 \in Callers :
        /\ p1 # p2 /\ Returned(p1) /\ Returned(p2)
        /\ trace[p1] = FullMiss /\ trace[p2] = FullMiss
        /\ SameKey(query[p1], query[p2])
        /\ ret[p1] # ret[p2]
        /\ lastWriter[Fold(query[p1])] = p2
        /\ cache[Fold(query[p1])] = ret[p2]

(***************************************************************************)
(* C10  Topic boosting never reduces a score: every document comes out of  *)
(* _apply_topic_boosting with a score at least its input score, whatever   *)
(* the input score.                                                        *)
(***************************************************************************)
SameDocument(d1, d2) == d1.content = d2.content /\ d1.metadata = d2.metadata

C10_NeverReducesAnyScore ==
    phase = "output" =>
        /\ Len(boosted) = Len(documents)
        /\ \E f \in IndexPermutations(Len(documents)) :
              \A i \in 1..Len(documents) :
                  /\ SameDocument(boosted[f[i]], documents[i])
                  /\ boosted[f[i]].score >= documents[i].score

\* C10 as amended: every document whose input score is at most 1.0 comes
\* out with a score at least its input score
C10_NeverReducesScoreUpToClamp ==
    phase = "output" =>
        /\ Len(boosted) = Len(documents)
        /\ \E f \in IndexPermutations(Len(documents)) :
              \A i \in 1..Len(documents) :
                  /\ SameDocument(boosted[f[i]], documents[i])
                  /\ documents[i].score <= SCORE_CLAMP =>
                        boosted[f[i]].score >= documents[i].score

\* a matching document was raised, one at 0.95 was raised to the clamp, and
\* a non-matching one kept its score
C10_Witness ==
    /\ phase = "output" /\ topic = "stress"
    /\ \E i, j, k \in 1..Len(documents) :
          /\ documents[i] = Document("a", Metadata("stress"), 40)
          /\ documents[j] = Document("b", Metadata("stress"), 95)
          /\ documents[k] = Document("a", Metadata("cbt"), 60)
    /\ \E i \in 1..Len(boosted) : boosted[i] = Document("a", Metadata("stress"), 55)
    /\ \E i \in 1..Len(boosted) : boosted[i] = Document("b", Metadata("stress"), 100)
    /\ \E i \in 1..Len(boosted) : boosted[i] = Document("a", Metadata("cbt"), 60)

(***************************************************************************)
(* C11  A boosted score never exceeds 1.0: every document whose metadata   *)
(* topic equals the query topic comes out of _apply_topic_boosting with    *)
(* the score min(1.0, score + TOPIC_BOOST_FACTOR), so 0.95 becomes 1.0.    *)
(***************************************************************************)
\* the document carries a topic and it is the query topic
Matching(d, t) == Truthy(t) /\ Get(d.metadata, "topic", None) = t

C11_BoostedScoreClamped ==
    (phase = "output" /\ Truthy(topic)) =>
        /\ Len(boosted) = Len(documents)
        /\ \E f \in IndexPermutations(Len(documents)) :
              \A i \in 1..Len(documents) :
                  /\ SameDocument(boosted[f[i]], documents[i])
                  /\ Matching(documents[i], topic) =>
                        boosted[f[i]].score =
                            Min(SCORE_CLAMP, documents[i].score + TOPIC_BOOST_FACTOR)
        /\ \A k \in 1..Len(boosted) :
              Matching(boosted[k], topic) => boosted[k].score <= SCORE_CLAMP

\* a matching document at 0.95 came out at exactly 1.0, one at 0.40 at 0.55
C11_Witness ==
    /\ phase = "output" /\ topic = "stress"
    /\ documents = << Document("a", Metadata("stress"), 40),
                      Document("b", Metadata("stress"), 95) >>
    /\ boosted = << Document("b", Metadata("stress"), 100),
                    Document("a", Metadata("stress"), 55) >>

(***************************************************************************)
(* C12  Documents that do not match keep their score: a document with a    *)
(* different topic, or with no topic key, comes out of                     *)
(* _apply_topic_boosting with exactly its input score, and it stays ahead  *)
(* of every boosted document whose new score is lower (cbt 0.60 ahead of   *)
(* stress 0.40 + 0.15).                                                    *)
(***************************************************************************)
C12_NonMatchingKeepScore ==
    phase = "output" =>
        /\ Len(boosted) = Len(documents)
        /\ \E f \in IndexPermutations(Len(documents)) :
              \A i \in 1..Len(documents) :
                  /\ SameDocument(boosted[f[i]], documents[i])
                  /\ ~Matching(documents[i], topic) =>
                        boosted[f[i]].score = documents[i].score
        /\ Truthy(topic) =>
              \A i, j \in 1..Len(boosted) :
                  (/\ ~Matching(boosted[i], topic) /\ Matching(boosted[j], topic)
                   /\ boosted[i].score > boosted[j].score) => i < j

\* the unit test: stress 0.40 and cbt 0.60 with the topic stress give cbt
\* 0.60 ahead of stress 0.55; a document without topic key kept its score
C12_Witness ==
    /\ phase = "output" /\ topic = "stress"
    /\ documents = << Document("a", Metadata("stress"), 40),
                      Document("b", Metadata("cbt"), 60),
                      Document("a", EmptyMetadata, 40) >>
    /\ boosted = << Document("b", Metadata("cbt"), 60),
                    Document("a", Metadata("stress"), 55),
                    Document("a", EmptyMetadata, 40) >>

(***************************************************************************)
(* C13  Reranking with no topic, or with an empty input, does nothing: the *)
(* sequence _apply_topic_boosting returns equals its input value for value *)
(* and position for position, also when the input is not sorted by score.  *)
(***************************************************************************)
C13_NoTopicIsNoOp ==
    (phase = "output" /\ (~Truthy(topic) \/ documents = << >>)) =>
        boosted = documents

\* the unit test: stress 0.40 before cbt 0.60 with topic None comes back
\* in that order
C13_Witness ==
    /\ phase = "output" /\ topic = None
    /\ documents = << Document("a", Metadata("stress"), 40),
                      Document("b", Metadata("cbt"), 60) >>
    /\ ~SortedDescending(documents)
    /\ boosted = documents

(***************************************************************************)
(* C14  The rerank sort is stable: two documents whose scores after the    *)
(* boost are equal come out of _apply_topic_boosting in the relative order *)
(* they had in the input.                                                  *)
(***************************************************************************)
C14_StableSort ==
    phase = "output" =>
        /\ Len(boosted) = Len(documents)
        /\ \E f \in IndexPermutations(Len(documents)) :
              /\ \A i \in 1..Len(documents) :
                    /\ SameDocument(boosted[f[i]], documents[i])
                    /\ boosted[f[i]].score = PostRerankScore(documents[i], topic)
              /\ \A i, j \in 1..Len(documents) :
                    (i < j /\ boosted[f[i]].score = boosted[f[j]].score) => f[i] < f[j]

\* the two documents at 0.60 kept their input order, "b" before "a", behind
\* the boosted one that the sort moved in front of them
C14_Witness ==
    /\ phase = "output" /\ topic = "stress"
    /\ documents = << Document("b", Metadata("cbt"), 60),
                      Document("a", EmptyMetadata, 60),
                      Document("a", Metadata("stress"), 95) >>
    /\ boosted = << Document("a", Metadata("stress"), 100),
                    Document("b", Metadata("cbt"), 60),
                    Document("a", EmptyMetadata, 60) >>

(***************************************************************************)
(* C15  Reranking is idempotent in ordering: _apply_topic_boosting applied *)
(* with the same topic to its own output returns the documents in the      *)
(* same order.                                                             *)
(***************************************************************************)
\* the documents of a sequence in their order, without their scores
DocOrder(docs) == [i \in 1..Len(docs) |-> << docs[i].content, docs[i].metadata >>]

C15_SameOrderAgain ==
    phase = "again" => DocOrder(reboosted) = DocOrder(boosted)

\* no matching document stands behind a non-matching one whose score its
\* next boost would exceed
NoOvertaking(docs, t) ==
    \A i, j \in 1..Len(docs) :
        (i < j /\ ~Matching(docs[i], t) /\ Matching(docs[j], t)) =>
            docs[i].score >= Min(SCORE_CLAMP, docs[j].score + TOPIC_BOOST_FACTOR)

\* C15 as amended: the second application returns the documents in the
\* same order exactly when no matching document stands behind a
\* non-matching one whose score its second boost exceeds
C15_SameOrderUnlessOvertaken ==
    phase = "again" =>
        (DocOrder(reboosted) = DocOrder(boosted) <=> NoOvertaking(boosted, topic))

\* cbt 0.60 ahead of stress 0.40 stayed ahead of stress 0.55 and of stress
\* 0.70: the order of the first output is that of the second
C15_Witness ==
    /\ phase = "again" /\ topic = "stress"
    /\ documents = << Document("a", Metadata("stress"), 40),
                      Document("b", Metadata("cbt"), 95) >>
    /\ boosted = << Document("b", Metadata("cbt"), 95),
                    Document("a", Metadata("stress"), 55) >>
    /\ reboosted = << Document("b", Metadata("cbt"), 95),
                      Document("a", Metadata("stress"), 70) >>

(***************************************************************************)
(* C16  The topic tie-break is deterministic: when several topics share    *)
(* the highest pattern count, infer_topic_from_query returns the one that  *)
(* comes first in the order depression, anxiety, stress, breathing, cbt;   *)
(* otherwise it returns the topic with the strictly highest count.         *)
(***************************************************************************)
TopicIndex(t) == CHOOSE i \in 1..Len(Topics) : Topics[i] = t

C16_FirstOfTheTied ==
    (topic_phase = "output" /\ topic_scores # << >>) =>
        /\ best_topic \in DOMAIN topic_scores
        /\ \A t \in DOMAIN topic_scores :
              \/ topic_scores[t] < topic_scores[best_topic]
              \/ /\ topic_scores[t] = topic_scores[best_topic]
                 /\ TopicIndex(best_topic) <= TopicIndex(t)

\* stress and anxiety both count two patterns, stress named first in the
\* query: anxiety, the earlier in the fixed order, is returned
C16_Witness ==
    /\ topic_phase = "output"
    /\ topic_query = Spaced(<<"stressed", "out", "Panic", "attack">>)
    /\ topic_scores = [t \in {"anxiety", "stress"} |-> 2]
    /\ best_topic = "anxiety"

(***************************************************************************)
(* C17  A topic's score is the number of its patterns that match the       *)
(* lowercased query, each pattern counted once however often it occurs;    *)
(* infer_topic_from_query returns None exactly when no pattern of any      *)
(* topic matches, and a query that matches only stress patterns gives      *)
(* stress.                                                                 *)
(***************************************************************************)
\* the patterns of the topic that match the text
MatchingPatterns(s, t) ==
    {i \in 1..Len(PatternMatches(s, t)) : PatternMatches(s, t)[i]}

C17_ScoreCountsPatterns ==
    topic_phase = "output" =>
        LET s == Lower(topic_query)
            TopicSet == {Topics[i] : i \in 1..Len(Topics)}
        IN  /\ DOMAIN topic_scores = {t \in TopicSet : MatchingPatterns(s, t) # {}}
            /\ \A t \in DOMAIN topic_scores :
                  topic_scores[t] = Cardinality(MatchingPatterns(s, t))
            /\ best_topic = None <=> \A t \in TopicSet : MatchingPatterns(s, t) = {}
            /\ DOMAIN topic_scores = {"stress"} => best_topic = "stress"

\* the keyword of stress three times in one query counts once, and the
\* idiom "stressed out" makes it two
C17_Witness ==
    /\ topic_phase = "output"
    /\ topic_query = Spaced(<<"Stress", "Stress", "stressed", "out">>)
    /\ topic_scores = [t \in {"stress"} |-> 2]
    /\ best_topic = "stress"

(***************************************************************************)
(* C19  The cache has no eviction, expiry or invalidation: a normalized    *)
(* key that is in the cache is in it in every later state, and every call  *)
(* of retrieve that returns leaves its normalized key in the cache.        *)
(***************************************************************************)
C19_KeysStay ==
    [][ /\ DOMAIN cache \subseteq DOMAIN cache'
        /\ \A p \in Callers :
              pc'[p] = "returned" => Fold(query'[p]) \in DOMAIN cache'
      ]_vars

\* two keys are in the cache, the first one stored still there after the
\* second was stored and after a third call failed
C19_Witness ==
    /\ Cardinality(DOMAIN cache) = 2
    /\ \E p1, p2 \in Callers :
          /\ p1 # p2
          /\ Returned(p1) /\ trace[p1] = FullMiss
          /\ pc[p2] = "raised" /\ calls[p2] = 2
          /\ lastWriter[Fold(query[p1])] = p1
          /\ \E k \in DOMAIN cache : k # Fold(query[p1]) /\ lastWriter[k] = p2

(***************************************************************************)
(* C18  Documents are never changed in place: _apply_topic_boosting leaves *)
(* the sequence it was given and every document of it (content, metadata,  *)
(* score) as they were, and no later call of retrieve alters a sequence    *)
(* that is in the cache or that an earlier call returned.                  *)
(***************************************************************************)
C18_NoMutationInPlace ==
    [][ /\ documents' = documents
        /\ \A k \in DOMAIN cache : k \in DOMAIN cache' /\ cache'[k] = cache[k]
        /\ \A p \in Callers :
              (Returned(p) /\ ~Starts(p)) => ret'[p] = ret[p]
      ]_vars

\* the boost returned a reordered sequence with a new score and the input
\* is the one given; a cached sequence was returned again by a later hit
\* after another key had been stored
C18_Witness ==
    /\ phase = "output" /\ topic = "stress"
    /\ documents = TestDocs
    /\ boosted = << Document("b", Metadata("cbt"), 60),
                    Document("a", Metadata("stress"), 55) >>
    /\ Cardinality(DOMAIN cache) = 2
    /\ \E p1, p2 \in Callers :
          /\ p1 # p2 /\ Returned(p1) /\ Returned(p2)
          /\ trace[p1] = FullMiss /\ ret[p1] # << >>
          /\ trace[p2] = << >> /\ calls[p2] = 2
          /\ ret[p2] = ret[p1] /\ cache[Fold(query[p1])] = ret[p1]

(***************************************************************************)
(* C20  A /chat request whose safety check gives the risk level high is    *)
(* answered with HTTP 200, safety_status "blocked" and sources_used 0, and *)
(* neither the retrieval service nor the LLM service is invoked for it.    *)
(***************************************************************************)
C20_HighRiskBlocked ==
    \A r \in ChatRequests :
        risk_level[r] = "high" =>
            /\ chat_pc[r] = "done"
            /\ response[r] = ChatResponse("blocked", 0)
            /\ invoked[r] = <<"safety">>

\* one request was blocked while another, of low risk, went through the
\* retrieval and the LLM
C20_Witness ==
    \E r1, r2 \in ChatRequests :
        /\ chat_pc[r1] = "done" /\ risk_level[r1] = "high"
        /\ response[r1].status_code = 200 /\ response[r1].safety_status = "blocked"
        /\ invoked[r1] = <<"safety">>
        /\ chat_pc[r2] = "done" /\ risk_level[r2] = "low"
        /\ invoked[r2] = <<"safety", "retrieval", "llm">>
        /\ response[r2].sources_used > 0

(***************************************************************************)
(* C21  A /chat request that is not blocked and for which retrieve returns *)
(* the empty sequence is answered with HTTP 200, the fallback message,     *)
(* sources_used 0 and safety_status "pass", and the LLM service is not     *)
(* invoked for it.                                                         *)
(***************************************************************************)
C21_EmptyRetrievalFallback ==
    \A r \in ChatRequests :
        (risk_level[r] \in {"medium", "low"} /\ retrieved[r]
         /\ chat_documents[r] = << >>) =>
            /\ chat_pc[r] = "done"
            /\ response[r] = ChatResponse("pass", 0)
            /\ response_text[r] = FallbackMessage
            /\ invoked[r] = <<"safety", "retrieval">>
            /\ attempts[r] = << >>

\* a request of medium risk got the fallback while another one, with
\* documents, has its generate call in flight
C21_Witness ==
    \E r1, r2 \in ChatRequests :
        /\ chat_pc[r1] = "done" /\ risk_level[r1] = "medium"
        /\ retrieved[r1] /\ chat_documents[r1] = << >>
        /\ response[r1].status_code = 200 /\ response_text[r1] = FallbackMessage
        /\ chat_pc[r2] = "generating" /\ chat_documents[r2] # << >>

(***************************************************************************)
(* C22  In every HTTP 200 response of /chat, sources_used is the number of *)
(* retrieved documents handed to the LLM as context: 0 when the request    *)
(* was blocked or retrieve returned nothing, the length of retrieve's      *)
(* result when an answer was generated.                                    *)
(***************************************************************************)
\* the request was answered with HTTP 200
Answered200(r) == chat_pc[r] = "done" /\ response[r].status_code = 200

C22_SourcesUsedCountsContext ==
    \A r \in ChatRequests :
        Answered200(r) =>
            /\ response[r].sources_used = Len(context[r])
            /\ (risk_level[r] = "high" \/ chat_documents[r] = << >>) =>
                  response[r].sources_used = 0
            /\ "llm" \in Range(invoked[r]) =>
                  /\ context[r] = Contents(chat_documents[r])
                  /\ response[r].sources_used = Len(chat_documents[r])

\* one answer was generated from one document, another from two, both
\* fewer than or equal to the top-k
C22_Witness ==
    \E r1, r2 \in ChatRequests :
        /\ Answered200(r1) /\ Answered200(r2)
        /\ Len(context[r1]) = 1 /\ response[r1].sources_used = 1
        /\ Len(context[r2]) = 2 /\ response[r2].sources_used = 2
        /\ attempts[r1] = <<"ok">>

(***************************************************************************)
(* C23  On a cache miss retrieve makes its external calls in the order     *)
(* embedding, similarity search, cache write, each at most once per call   *)
(* (no retry inside retrieve), and it never calls the similarity store     *)
(* when the embedding call has failed.                                     *)
(***************************************************************************)
IsPrefix(s, t) == Len(s) <= Len(t) /\ s = SubSeq(t, 1, Len(s))

C23_CallOrderNoRetry ==
    \A p \in Callers :
        /\ IsPrefix(trace[p], FullMiss)
        /\ err[p] \in EmbedErrors => trace[p] = <<"classify", "embed">>
        /\ err[p] \in SearchErrors => trace[p] = <<"classify", "embed", "search">>
        /\ (Returned(p) /\ Missed(p)) => trace[p] = FullMiss

\* one call failed in the embedding and made no search, another made all
\* three calls, a third is past its embedding and in the search
C23_Witness ==
    \E p1, p2 \in Callers :
        /\ pc[p1] = "raised" /\ err[p1] = "APIError"
        /\ trace[p1] = <<"classify", "embed">>
        /\ calls[p1] = 2
        /\ pc[p2] = "searching" /\ trace[p2] = <<"classify", "embed", "search">>
        /\ cache # << >>

ReturnsNow(p) == pc'[p] = "returned" /\ (pc[p] # "returned" \/ Starts(p))

C25_StableResults ==
    [][ \A p, p2 \in Callers :
            (/\ p # p2 /\ Returned(p2) /\ ReturnsNow(p)
             /\ SameKey(query'[p], query[p2])) => ret'[p] = ret[p2]
      ]_vars

\* a call that missed the cache for the key is in flight
InFlight(k) ==
    \E p \in Callers : pc[p] \in {"embedding", "searching"} /\ Fold(query[p]) = k

InFlightNext(k) ==
    \E p \in Callers : pc'[p] \in {"embedding", "searching"} /\ Fold(query'[p]) = k

\* C25 as amended: once a key is in the cache and no call for it that
\* missed the cache is in flight, its entry never changes again, no call
\* for it misses again, and every call for it that returns, returns the
\* entry
C25_StableOnceQuiet ==
    [][ \A k \in DOMAIN cache :
            ~InFlight(k) =>
                /\ k \in DOMAIN cache' /\ cache'[k] = cache[k]
                /\ ~InFlightNext(k)
                /\ \A p \in Callers :
                      (ReturnsNow(p) /\ Fold(query'[p]) = k) => ret'[p] = cache[k]
      ]_vars

\* two calls missed for the same key and both wrote; with none of them in
\* flight any more a third call got the entry the later one wrote
C25_Witness ==
    \E p1, p2 \in Callers :
        /\ p1 # p2 /\ SameKey(query[p1], query[p2])
        /\ ~InFlight(Fold(query[p1]))
        /\ Returned(p1) /\ trace[p1] = << >> /\ calls[p1] = 2
        /\ Returned(p2) /\ trace[p2] = FullMiss /\ calls[p2] = 1
        /\ lastWriter[Fold(query[p1])] = p2
        /\ ret[p2] # << >>
        /\ ret[p1] = ret[p2] /\ cache[Fold(query[p1])] = ret[p2]

(***************************************************************************)
(* C26  Reranking neither drops nor duplicates documents: what             *)
(* _apply_topic_boosting returns has the length of its input and is a      *)
(* permutation of it with respect to (content, metadata), for every input  *)
(* sequence and topic.                                                     *)
(***************************************************************************)
PermutationOf(out, in) ==
    /\ Len(out) = Len(in)
    /\ \E f \in IndexPermutations(Len(in)) :
          \A i \in 1..Len(in) : SameDocument(out[f[i]], in[i])

C26_RerankIsPermutation ==
    /\ phase \in {"output", "again"} => PermutationOf(boosted, documents)
    /\ phase = "again" => PermutationOf(reboosted, boosted)

\* three documents, two of them alike in content and metadata and in
\* score, come out reordered under a topic
C26_Witness ==
    /\ phase = "output" /\ Truthy(topic) /\ Len(documents) = MaxDocs
    /\ \E i, j \in 1..Len(documents) : i # j /\ documents[i] = documents[j]
    /\ ~SameDocument(boosted[1], documents[1])
    /\ PermutationOf(boosted, documents)

(***************************************************************************)
(* C27  Every /chat request that completes with HTTP 200, blocked,         *)
(* fallback or generated, increments Metrics.total_requests by exactly     *)
(* one; a request that ends in an error response increments it by zero.    *)
(***************************************************************************)
\* in this step the handler answers the request
AnswersNow(r) == chat_pc[r] # "done" /\ chat_pc'[r] = "done"

C27_EveryAnswerCounted ==
    [][ \A r \in ChatRequests :
            AnswersNow(r) =>
                IF response'[r].status_code = 200
                THEN metrics'.total_requests = metrics.total_requests + 1
                ELSE metrics'.total_requests = metrics.total_requests
      ]_vars

(***************************************************************************)
(* C28  For every HTTP 200 response of /chat the safety_status reflects    *)
(* the assessed risk: 'blocked' iff the risk level is high, 'warning' iff  *)
(* it is medium, 'pass' iff it is low, on every path, the fallback for an  *)
(* empty retrieval included.                                               *)
(***************************************************************************)
C28_StatusReflectsRisk ==
    \A r \in ChatRequests :
        Answered200(r) =>
            /\ response[r].safety_status = "blocked" <=> risk_level[r] = "high"
            /\ response[r].safety_status = "warning" <=> risk_level[r] = "medium"
            /\ response[r].safety_status = "pass" <=> risk_level[r] = "low"

(***************************************************************************)
(* C30  LLMService.generate makes at most 3 attempts per call: it returns  *)
(* the content of the first attempt that succeeds without attempting       *)
(* again, and after 3 failures in a row it raises LLMException and makes   *)
(* no further attempt.                                                     *)
(***************************************************************************)
C30_AtMostThreeAttempts ==
    \A r \in ChatRequests :
        /\ Len(attempts[r]) <= LLM_MAX_ATTEMPTS
        /\ \A i \in 1..Len(attempts[r]) :
              attempts[r][i] = "ok" =>
                  /\ i = Len(attempts[r])
                  /\ chat_pc[r] = "done"
                  /\ llm_raised[r] = None
                  /\ response_text[r] \in LLMTexts
        /\ (Len(attempts[r]) = LLM_MAX_ATTEMPTS /\ "ok" \notin Range(attempts[r])) =>
              /\ chat_pc[r] = "done"
              /\ llm_raised[r] = "LLMException"
        /\ llm_raised[r] = "LLMException" =>
              /\ Len(attempts[r]) = LLM_MAX_ATTEMPTS
              /\ "ok" \notin Range(attempts[r])

\* one call succeeded at its third attempt after two different failures,
\* another failed three times and raised
C30_Witness ==
    \E r1, r2 \in ChatRequests :
        /\ attempts[r1] = <<"APIError", "TimeoutError", "ok">>
        /\ Answered200(r1) /\ response_text[r1] = "answer"
        /\ Len(attempts[r2]) = LLM_MAX_ATTEMPTS /\ "ok" \notin Range(attempts[r2])
        /\ llm_raised[r2] = "LLMException"
        /\ chat_pc[r2] = "done" /\ response[r2] = HTTPException(500)

(***************************************************************************)
(* C29  The embedding backend is initialised at most once per process:     *)
(* under any interleaving of concurrent first calls of                     *)
(* get_embedding_service and embed the model, or the client, is            *)
(* constructed no more than once.                                          *)
(***************************************************************************)
C29_InitialisedOnce == loads <= 1

====
